---- MODULE Spec2Model ----
(***************************************************************************)
(* Administrative-division tree: buildTree (node creation, code index,     *)
(* sort, binary-search linking) and the query engine (findNodeByCode,      *)
(* findByCode, findByName) of Administrative_division.c, together with the *)
(* findByCode / findByNameRecursive renderings of                          *)
(* Administrative_division_new.c.                                          *)
(*                                                                         *)
(* Strings are sequences of character codes: decimal digits 0..9 for the   *)
(* code fields, Unicode code points for the names.  Node pointers are      *)
(* indices into the heap sequence; NULL is 0.                              *)
(***************************************************************************)
EXTENDS Integers, Sequences, FiniteSets, TLC

VARIABLES regions, size, heap, nodes, codeToNode, root, pc, i, q,
          allocated, freed, result, kept

vars == <<regions, size, heap, nodes, codeToNode, root, pc, i, q,
          allocated, freed, result, kept>>

NULL == 0

(* ---------------------------------------------------------------------- *)
(* Program constants                                                       *)
(* ---------------------------------------------------------------------- *)
MAX_NAME_LENGTH == 100
MAX_CODE_LENGTH == 20
InitialChildCapacity == 10
MaxResults == 5
CodeDigits == 12

(* ---------------------------------------------------------------------- *)
(* Bounds of the model                                                     *)
(* ---------------------------------------------------------------------- *)
MaxRecords == 3
MaxWide == 5

(* ---------------------------------------------------------------------- *)
(* String functions of the C library, as the code uses them                *)
(* ---------------------------------------------------------------------- *)
\* strcmp that stops at the end of the shorter string
RECURSIVE strcmpPrefix(_, _)
strcmpPrefix(a, b) ==
    IF a = <<>> \/ b = <<>> THEN 0
    ELSE IF Head(a) < Head(b) THEN -1
    ELSE IF Head(a) > Head(b) THEN 1
    ELSE strcmpPrefix(Tail(a), Tail(b))

RECURSIVE strcmp(_, _)
strcmp(a, b) ==
    IF a = <<>> /\ b = <<>> THEN 0
    ELSE IF a = <<>> THEN -1
    ELSE IF b = <<>> THEN 1
    ELSE IF Head(a) < Head(b) THEN -1
    ELSE IF Head(a) > Head(b) THEN 1
    ELSE strcmp(Tail(a), Tail(b))

\* strstr that only looks at the start of haystack
strstrAtStart(haystack, needle) ==
    IF Len(needle) <= Len(haystack) /\ SubSeq(haystack, 1, Len(needle)) = needle
    THEN 1 ELSE NULL

\* strstr: 1-based position of the first occurrence of needle, NULL if none
strstr(haystack, needle) ==
    LET hits == {k \in 1..(Len(haystack) - Len(needle) + 1) :
                    SubSeq(haystack, k, k + Len(needle) - 1) = needle}
    IN IF hits = {} THEN NULL
       ELSE CHOOSE k \in hits : \A m \in hits : k <= m

\* strncpy(dst, src, n) followed by dst[n] = '\0'
strncpy(src, n) == SubSeq(src, 1, IF Len(src) < n THEN Len(src) ELSE n)

isdigit(c) == c \in 0..9
isspace(c) == c \in {32, 9, 10, 11, 12, 13}

\* a const char* argument that is NULL
NullString == <<-1>>

\* the bytes the UTF-8 encoding of code point c takes
Utf8Bytes(c) ==
    IF c < 128 THEN 1
    ELSE IF c < 2048 THEN 2
    ELSE IF c < 65536 THEN 3
    ELSE 4

\* strlen of a name: bytes, not characters
RECURSIVE strlen(_)
strlen(s) == IF s = <<>> THEN 0 ELSE Utf8Bytes(Head(s)) + strlen(Tail(s))

(* ---------------------------------------------------------------------- *)
(* Input records                                                           *)
(* ---------------------------------------------------------------------- *)
Sentinel == <<0>>
RootCode == <<0, 0, 0, 0, 0, 0, 0, 0, 0, 0, 0, 0>>
RootName == <<20013, 21326, 20154, 27665, 20849, 21644, 22269>>
Beijing == <<1, 1, 0, 0, 0, 0, 0, 0, 0, 0, 0, 0>>
Missing == <<9, 9, 0, 0, 0, 0, 0, 0, 0, 0, 0, 0>>

NameBeijing == <<21271, 20140, 24066>>
NameNanjing == <<21335, 20140, 24066>>
NameZhongshan == <<20013, 23665, 24066>>
NameOf(k) ==
    IF k % 3 = 1 THEN NameBeijing
    ELSE IF k % 3 = 2 THEN NameNanjing ELSE NameZhongshan

\* distinct 12-digit codes whose sorted order differs from the input order
CodeOf(k) == <<1, (3 * k) % 7, 0, 0, 0, 0, 0, 0, 0, 0, 0, 0>>

Region(c, n, l, p) == [code |-> c, name |-> n, level |-> l, parent_code |-> p]

\* free codes and parent codes: duplicates, orphans, self-parents, cycles,
\* records carrying the root's reserved code, top-level records with code "0"
CodesA == {RootCode, Beijing}
ParentsA == {Sentinel, RootCode, Beijing, Missing}
ChoicesA == (CodesA \X ParentsA) \cup {<<Sentinel, Sentinel>>}
InputsA ==
    UNION {
        { [k \in 1..n |->
             Region(f[k][1], NameOf(k),
                    IF f[k][2] = Sentinel THEN 1 ELSE 2, f[k][2])]
          : f \in [1..n -> ChoicesA] }
        : n \in 1..MaxRecords }

\* unique codes, free level field
LevelsC == {1, 2}
ParentsC(k) ==
    IF k = 1 THEN {Sentinel}
    ELSE {Sentinel, CodeOf(1), CodeOf(k - 1)}
RECURSIVE LevelSeqs(_)
LevelSeqs(k) ==
    IF k = 0 THEN {<<>>}
    ELSE { Append(s, Region(CodeOf(k), NameOf(k), l, p))
           : s \in LevelSeqs(k - 1), l \in LevelsC, p \in ParentsC(k) }
InputsC == UNION { LevelSeqs(n) : n \in 1..MaxRecords }

\* wide inputs for the result cap: unique codes, one top-level record, every
\* other record under the first or the previous one, free names
NamesB == {NameBeijing, NameZhongshan}
ParentsB(k) ==
    IF k = 1 THEN {Sentinel}
    ELSE {CodeOf(1), CodeOf(k - 1)}
RECURSIVE WideSeqs(_)
WideSeqs(k) ==
    IF k = 0 THEN {<<>>}
    ELSE { Append(s, Region(CodeOf(k), nm,
                            IF p = Sentinel THEN 1 ELSE 2, p))
           : s \in WideSeqs(k - 1), nm \in NamesB, p \in ParentsB(k) }
InputsB == WideSeqs(MaxWide)

\* scenario 1 of the specification: codes "0", "11", "1101", names "Root",
\* "Beijing", "Dongcheng"
Code0 == <<0>>
Code11 == <<1, 1>>
Code1101 == <<1, 1, 0, 1>>
NameRoot == <<82, 111, 111, 116>>
NameBeijingLatin == <<66, 101, 105, 106, 105, 110, 103>>
NameDongcheng == <<68, 111, 110, 103, 99, 104, 101, 110, 103>>
Scenario1 ==
    << Region(Code0, NameRoot, 0, Sentinel),
       Region(Code11, NameBeijingLatin, 1, Sentinel),
       Region(Code1101, NameDongcheng, 2, Code11) >>

\* one record more under the root than a fresh child array holds
FanSize == InitialChildCapacity + 1
FanCode(k) == <<2, k \div 10, k % 10, 0, 0, 0, 0, 0, 0, 0, 0, 0>>
Fan == [k \in 1..FanSize |-> Region(FanCode(k), NameOf(k), 1, Sentinel)]

\* the empty input is a file that cannot be opened or holds no record
Inputs == InputsA \cup InputsB \cup InputsC \cup {Scenario1, Fan, <<>>}

(* ---------------------------------------------------------------------- *)
(* Tree node operations                                                    *)
(* ---------------------------------------------------------------------- *)
createNode(data) ==
    [data |-> data, children |-> <<>>, parent |-> NULL,
     child_count |-> 0, child_capacity |-> InitialChildCapacity]

\* addChild that leaves child->parent unset
addChildNoBackReference(h, parent, child) ==
    LET cap == IF h[parent].child_count >= h[parent].child_capacity
               THEN h[parent].child_capacity * 2
               ELSE h[parent].child_capacity
    IN [h EXCEPT ![parent].child_capacity = cap,
                 ![parent].children = Append(@, child),
                 ![parent].child_count = @ + 1]

\* addChild that also points the parent's back-reference at the child
addChildMutual(h, parent, child) ==
    LET cap == IF h[parent].child_count >= h[parent].child_capacity
               THEN h[parent].child_capacity * 2
               ELSE h[parent].child_capacity
        h1 == [h EXCEPT ![parent].child_capacity = cap,
                        ![parent].children = Append(@, child),
                        ![parent].child_count = @ + 1]
    IN [h1 EXCEPT ![child].parent = parent, ![parent].parent = child]

\* addChild that puts the child in front of the collection
addChildPrepend(h, parent, child) ==
    LET cap == IF h[parent].child_count >= h[parent].child_capacity
               THEN h[parent].child_capacity * 2
               ELSE h[parent].child_capacity
        h1 == [h EXCEPT ![parent].child_capacity = cap,
                        ![parent].children = <<child>> \o @,
                        ![parent].child_count = @ + 1]
    IN [h1 EXCEPT ![child].parent = parent]

\* addChild that stores the child without enlarging a full array
addChildNoGrow(h, parent, child) ==
    LET h1 == [h EXCEPT ![parent].children = Append(@, child),
                        ![parent].child_count = @ + 1]
    IN [h1 EXCEPT ![child].parent = parent]

\* the heap after addChild(parent, child)
addChild(h, parent, child) ==
    LET cap == IF h[parent].child_count >= h[parent].child_capacity
               THEN h[parent].child_capacity * 2
               ELSE h[parent].child_capacity
        h1 == [h EXCEPT ![parent].child_capacity = cap,
                        ![parent].children = Append(@, child),
                        ![parent].child_count = @ + 1]
    IN [h1 EXCEPT ![child].parent = parent]

\* the comparison with its arguments swapped
compareCodeToNodeSwapped(a, b) == strcmp(b.code, a.code)

compareCodeToNode(a, b) == strcmp(a.code, b.code)

\* every order qsort may leave the index in: sorted by compareCodeToNode,
\* entries that compare equal in any order
RECURSIVE SortedOrders(_)
SortedOrders(entries) ==
    IF entries = {} THEN {<<>>}
    ELSE UNION { { <<m>> \o t : t \in SortedOrders(entries \ {m}) }
                 : m \in { e \in entries :
                             \A o \in entries :
                                 compareCodeToNode(e, o) <= 0 } }

\* BinarySearch with the loop condition left < right
RECURSIVE BinarySearchStrict(_, _, _, _)
BinarySearchStrict(map, key, left, right) ==
    IF left >= right THEN NULL
    ELSE LET mid == (left + right) \div 2
             cmp == strcmp(map[mid + 1].code, key)
         IN IF cmp = 0 THEN map[mid + 1].node
            ELSE IF cmp < 0 THEN BinarySearchStrict(map, key, mid + 1, right)
            ELSE BinarySearchStrict(map, key, left, mid - 1)

\* the binary search of the linking loop; left and right are C indices
RECURSIVE BinarySearch(_, _, _, _)
BinarySearch(map, key, left, right) ==
    IF left > right THEN NULL
    ELSE LET mid == (left + right) \div 2
             cmp == strcmp(map[mid + 1].code, key)
         IN IF cmp = 0 THEN map[mid + 1].node
            ELSE IF cmp < 0 THEN BinarySearch(map, key, mid + 1, right)
            ELSE BinarySearch(map, key, left, mid - 1)

\* the values mid takes in the binary search of the linking loop
RECURSIVE BinarySearchProbes(_, _, _, _)
BinarySearchProbes(map, key, left, right) ==
    IF left > right THEN <<>>
    ELSE LET mid == (left + right) \div 2
             cmp == strcmp(map[mid + 1].code, key)
         IN IF cmp = 0 THEN <<mid>>
            ELSE IF cmp < 0
                 THEN <<mid>> \o BinarySearchProbes(map, key, mid + 1, right)
                 ELSE <<mid>> \o BinarySearchProbes(map, key, left, mid - 1)

\* the parent the pairwise scan of the earlier buildTree picks: the node of
\* the first record whose code equals key
RECURSIVE LinearScan(_, _, _, _)
LinearScan(rs, ns, key, j) ==
    IF j >= Len(rs) THEN NULL
    ELSE IF strcmp(key, rs[j + 1].code) = 0 THEN ns[j + 1]
    ELSE LinearScan(rs, ns, key, j + 1)

China == Region(RootCode, RootName, 0, Sentinel)

(* ---------------------------------------------------------------------- *)
(* buildTree, one step per loop iteration                                  *)
(* ---------------------------------------------------------------------- *)
NoQuery == [op |-> "none"]

\* value of main's result before any return statement has set it
NotReturned == -1

\* blocks of dynamic memory: the struct and the children array of a node,
\* and the arrays of main and buildTree
NodeBlock(n) == <<"node", n>>
ChildrenBlock(n) == <<"children", n>>
RegionsBlock == <<"regions", 0>>
NodesBlock == <<"nodes", 0>>
IndexBlock == <<"codeToNode", 0>>

\* the cleanup loop releasing the node structs only
RECURSIVE FreeNodesStructOnly(_, _)
FreeNodesStructOnly(ns, count) ==
    IF count = 0
    THEN <<>>
    ELSE FreeNodesStructOnly(ns, count - 1) \o <<NodeBlock(ns[count])>>

\* the releases of the cleanup loop over nodes[0 .. count-1]
RECURSIVE FreeNodes(_, _)
FreeNodes(ns, count) ==
    IF count = 0
    THEN <<>>
    ELSE FreeNodes(ns, count - 1) \o
         <<ChildrenBlock(ns[count]), NodeBlock(ns[count])>>

Init ==
    /\ regions \in Inputs
    /\ size = Len(regions)
    /\ heap = <<>>
    /\ nodes = <<>>
    /\ codeToNode = <<>>
    /\ root = NULL
    /\ pc = "load"
    /\ i = 0
    /\ q = NoQuery
    /\ allocated = {}
    /\ freed = <<>>
    /\ result = NotReturned
    /\ kept = NoQuery

\* main without the test of size == 0
LoadRegionsNoCheck ==
    /\ pc = "load"
    /\ allocated' = allocated \cup {RegionsBlock}
    /\ pc' = "alloc"
    /\ UNCHANGED <<regions, size, heap, nodes, codeToNode, root, i, q,
                   freed, result, kept>>

\* main: regions = malloc(...) succeeds; size = loadRegionsFromCSV(...);
\* a size of 0 ends the program with status 1
LoadRegions ==
    /\ pc = "load"
    /\ allocated' = allocated \cup {RegionsBlock}
    /\ IF size = 0
       THEN /\ freed' = Append(freed, RegionsBlock)
            /\ result' = 1
            /\ pc' = "exit"
       ELSE /\ pc' = "alloc"
            /\ UNCHANGED <<freed, result>>
    /\ UNCHANGED <<regions, size, heap, nodes, codeToNode, root, i, q, kept>>

\* main: malloc of regions returns NULL
MainAllocFail ==
    /\ pc = "load"
    /\ result' = 1
    /\ pc' = "exit"
    /\ UNCHANGED <<regions, size, heap, nodes, codeToNode, root, i, q,
                   allocated, freed, kept>>

\* buildTree: both malloc calls for nodes and codeToNode succeed
AllocArrays ==
    /\ pc = "alloc"
    /\ allocated' = allocated \cup {NodesBlock, IndexBlock}
    /\ pc' = "create"
    /\ UNCHANGED <<regions, size, heap, nodes, codeToNode, root, i, q,
                   freed, result, kept>>

\* buildTree: malloc of nodes returns NULL
AllocNodesFail ==
    /\ pc = "alloc"
    /\ pc' = "failed"
    /\ UNCHANGED <<regions, size, heap, nodes, codeToNode, root, i, q,
                   allocated, freed, result, kept>>

\* buildTree: malloc of codeToNode returns NULL
AllocIndexFail ==
    /\ pc = "alloc"
    /\ allocated' = allocated \cup {NodesBlock}
    /\ freed' = Append(freed, NodesBlock)
    /\ pc' = "failed"
    /\ UNCHANGED <<regions, size, heap, nodes, codeToNode, root, i, q,
                   result, kept>>

\* nodes[i] = createNode(regions[i]); codeToNode[i] = (code, nodes[i])
CreateNodeStep ==
    /\ pc = "create"
    /\ i < size
    /\ heap' = Append(heap, createNode(regions[i + 1]))
    /\ allocated' = allocated \cup
           {NodeBlock(Len(heap) + 1), ChildrenBlock(Len(heap) + 1)}
    /\ nodes' = Append(nodes, Len(heap) + 1)
    /\ codeToNode' = Append(codeToNode,
           [code |-> strncpy(regions[i + 1].code, MAX_CODE_LENGTH - 1),
            node |-> Len(heap) + 1])
    /\ i' = i + 1
    /\ UNCHANGED <<regions, size, root, pc, q, freed, result, kept>>

\* createNode(regions[i]) returns NULL: either malloc of the node fails, or
\* malloc of its children array fails and createNode frees the node; the
\* loop then releases nodes[0 .. i-1], nodes and codeToNode
CreateNodeFail ==
    /\ pc = "create"
    /\ i < size
    /\ \E got_node \in BOOLEAN :
          LET n == Len(heap) + 1
          IN /\ allocated' =
                   IF got_node THEN allocated \cup {NodeBlock(n)}
                   ELSE allocated
             /\ freed' = freed \o
                   (IF got_node THEN <<NodeBlock(n)>> ELSE <<>>) \o
                   FreeNodes(nodes, i) \o <<NodesBlock, IndexBlock>>
    /\ pc' = "failed"
    /\ UNCHANGED <<regions, size, heap, nodes, codeToNode, root, i, q,
                   result, kept>>

\* qsort(codeToNode, size, ..., compareCodeToNode)
SortIndex ==
    /\ pc = "create"
    /\ i = size
    /\ codeToNode' \in SortedOrders({codeToNode[k] : k \in 1..size})
    /\ pc' = "root"
    /\ UNCHANGED <<regions, size, heap, nodes, root, i, q, allocated, freed, result, kept>>

\* root = createNode(china)
CreateRoot ==
    /\ pc = "root"
    /\ heap' = Append(heap, createNode(China))
    /\ allocated' = allocated \cup
           {NodeBlock(Len(heap) + 1), ChildrenBlock(Len(heap) + 1)}
    /\ root' = Len(heap) + 1
    /\ pc' = "link"
    /\ i' = 0
    /\ UNCHANGED <<regions, size, nodes, codeToNode, q, freed, result, kept>>

\* createNode(china) returns NULL; every record node, nodes and codeToNode
\* are released
CreateRootFail ==
    /\ pc = "root"
    /\ \E got_node \in BOOLEAN :
          LET n == Len(heap) + 1
          IN /\ allocated' =
                   IF got_node THEN allocated \cup {NodeBlock(n)}
                   ELSE allocated
             /\ freed' = freed \o
                   (IF got_node THEN <<NodeBlock(n)>> ELSE <<>>) \o
                   FreeNodes(nodes, size) \o <<NodesBlock, IndexBlock>>
    /\ pc' = "failed"
    /\ UNCHANGED <<regions, size, heap, nodes, codeToNode, root, i, q,
                   result, kept>>

\* the linking loop searching the index first and using the root only when
\* the search finds nothing
LinkStepSearchFirst ==
    /\ pc = "link"
    /\ i < size
    /\ heap' =
          LET parent == BinarySearch(codeToNode,
                            regions[i + 1].parent_code, 0, size - 1)
          IN IF parent # NULL
             THEN addChild(heap, parent, nodes[i + 1])
             ELSE IF strcmp(regions[i + 1].parent_code, Sentinel) = 0
                  THEN addChild(heap, root, nodes[i + 1])
                  ELSE heap
    /\ i' = i + 1
    /\ UNCHANGED <<regions, size, nodes, codeToNode, root, pc, q, allocated, freed, result, kept>>

\* the linking loop starting the search at index 1 in odd iterations
LinkStepShiftedSearch ==
    /\ pc = "link"
    /\ i < size
    /\ heap' =
          IF strcmp(regions[i + 1].parent_code, Sentinel) = 0
          THEN addChild(heap, root, nodes[i + 1])
          ELSE LET parent == BinarySearch(codeToNode,
                                 regions[i + 1].parent_code, i % 2, size - 1)
               IN IF parent # NULL
                  THEN addChild(heap, parent, nodes[i + 1])
                  ELSE heap
    /\ i' = i + 1
    /\ UNCHANGED <<regions, size, nodes, codeToNode, root, pc, q, allocated, freed, result, kept>>

\* the linking loop without the else: after a sentinel record is put under
\* the root its parent code is searched in the index as well
LinkStepNoElse ==
    /\ pc = "link"
    /\ i < size
    /\ heap' =
          LET h1 == IF strcmp(regions[i + 1].parent_code, Sentinel) = 0
                    THEN addChild(heap, root, nodes[i + 1])
                    ELSE heap
              parent == BinarySearch(codeToNode,
                            regions[i + 1].parent_code, 0, size - 1)
          IN IF parent # NULL
             THEN addChild(h1, parent, nodes[i + 1])
             ELSE h1
    /\ i' = i + 1
    /\ UNCHANGED <<regions, size, nodes, codeToNode, root, pc, q, allocated, freed, result, kept>>

\* the linking loop putting a record whose parent is not found under the root
LinkStepOrphanToRoot ==
    /\ pc = "link"
    /\ i < size
    /\ heap' =
          IF strcmp(regions[i + 1].parent_code, Sentinel) = 0
          THEN addChild(heap, root, nodes[i + 1])
          ELSE LET parent == BinarySearch(codeToNode,
                                 regions[i + 1].parent_code, 0, size - 1)
               IN IF parent # NULL
                  THEN addChild(heap, parent, nodes[i + 1])
                  ELSE addChild(heap, root, nodes[i + 1])
    /\ i' = i + 1
    /\ UNCHANGED <<regions, size, nodes, codeToNode, root, pc, q, allocated, freed, result, kept>>

\* one iteration of the linking loop
LinkStep ==
    /\ pc = "link"
    /\ i < size
    /\ heap' =
          IF strcmp(regions[i + 1].parent_code, Sentinel) = 0
          THEN addChild(heap, root, nodes[i + 1])
          ELSE LET parent == BinarySearch(codeToNode,
                                 regions[i + 1].parent_code, 0, size - 1)
               IN IF parent # NULL
                  THEN addChild(heap, parent, nodes[i + 1])
                  ELSE heap
    /\ i' = i + 1
    /\ UNCHANGED <<regions, size, nodes, codeToNode, root, pc, q, allocated, freed, result, kept>>

\* free(codeToNode); free(nodes); return root
BuildReturn ==
    /\ pc = "link"
    /\ i = size
    /\ codeToNode' = <<>>
    /\ nodes' = <<>>
    /\ freed' = freed \o <<IndexBlock, NodesBlock>>
    /\ pc' = "menu"
    /\ UNCHANGED <<regions, size, heap, root, i, q, allocated, result, kept>>

\* main: buildTree returned NULL; free(regions); return 1
BuildFailed ==
    /\ pc = "failed"
    /\ freed' = Append(freed, RegionsBlock)
    /\ result' = 1
    /\ pc' = "exit"
    /\ UNCHANGED <<regions, size, heap, nodes, codeToNode, root, i, q,
                   allocated, kept>>

\* freeTree releasing a node before the nodes below it
RECURSIVE freeTreeParentFirst(_, _), freeTreeParentFirstChildren(_, _, _)
freeTreeParentFirst(h, r) ==
    IF r = NULL
    THEN <<>>
    ELSE <<ChildrenBlock(r), NodeBlock(r)>> \o
         freeTreeParentFirstChildren(h, r, 1)
freeTreeParentFirstChildren(h, r, k) ==
    IF k > h[r].child_count
    THEN <<>>
    ELSE freeTreeParentFirst(h, h[r].children[k]) \o
         freeTreeParentFirstChildren(h, r, k + 1)

\* the releases of freeTree(r), in the order of the calls of free
RECURSIVE freeTree(_, _), freeTreeChildren(_, _, _)
freeTree(h, r) ==
    IF r = NULL
    THEN <<>>
    ELSE freeTreeChildren(h, r, 1) \o <<ChildrenBlock(r), NodeBlock(r)>>
freeTreeChildren(h, r, k) ==
    IF k > h[r].child_count
    THEN <<>>
    ELSE freeTree(h, h[r].children[k]) \o freeTreeChildren(h, r, k + 1)

(* ---------------------------------------------------------------------- *)
(* Query engine of Administrative_division.c                               *)
(* ---------------------------------------------------------------------- *)
RECURSIVE findNodeByCode(_, _, _), findNodeByCodeInChildren(_, _, _, _)
findNodeByCode(h, r, code) ==
    IF r = NULL THEN NULL
    ELSE IF strcmp(h[r].data.code, code) = 0 THEN r
    ELSE findNodeByCodeInChildren(h, r, code, 0)

\* the for loop returning the first child's result without going on
findNodeByCodeFirstChild(h, r, code, k) ==
    IF k >= h[r].child_count THEN NULL
    ELSE findNodeByCode(h, h[r].children[k + 1], code)

\* the for loop running from the last child to the first
RECURSIVE findNodeByCodeLastChild(_, _, _, _)
findNodeByCodeLastChild(h, r, code, k) ==
    IF k >= h[r].child_count THEN NULL
    ELSE LET found == findNodeByCode(h,
                          h[r].children[h[r].child_count - k], code)
         IN IF found # NULL THEN found
            ELSE findNodeByCodeLastChild(h, r, code, k + 1)

\* the for loop of findNodeByCode, from child index k on
findNodeByCodeInChildren(h, r, code, k) ==
    IF k >= h[r].child_count THEN NULL
    ELSE LET found == findNodeByCode(h, h[r].children[k + 1], code)
         IN IF found # NULL THEN found
            ELSE findNodeByCodeInChildren(h, r, code, k + 1)

\* validateCode without the length test
validateCodeAnyLength(code) ==
    IF \E k \in 1..Len(code) : ~isdigit(code[k]) THEN -2
    ELSE 0

validateCode(code) ==
    IF Len(code) # CodeDigits THEN -1
    ELSE IF \E k \in 1..CodeDigits : ~isdigit(code[k]) THEN -2
    ELSE 0

\* validateName without the test for a blank name
validateNameNoBlankTest(name) ==
    IF name = NullString \/ name = <<>> THEN -1
    ELSE IF strlen(name) >= MAX_NAME_LENGTH THEN -2
    ELSE 0

validateName(name) ==
    IF name = NullString \/ name = <<>> THEN -1
    ELSE IF strlen(name) >= MAX_NAME_LENGTH THEN -2
    ELSE IF \E k \in 1..Len(name) : ~isspace(name[k]) THEN 0
    ELSE -3

\* the while loop stopping one node early, at the child of the root
RECURSIVE HierarchyLinesShort(_, _, _)
HierarchyLinesShort(h, current, level) ==
    IF current = NULL \/ h[current].parent = NULL
       \/ h[h[current].parent].parent = NULL
    THEN <<>>
    ELSE <<[node |-> current, indent |-> level,
            name |-> h[current].data.name]>>
         \o HierarchyLinesShort(h, h[current].parent, level + 1)

\* the hierarchy lines of displayNodeInfo: one line per node the while loop
\* prints, with its indentation
RECURSIVE HierarchyLines(_, _, _)
HierarchyLines(h, current, level) ==
    IF current = NULL \/ h[current].parent = NULL THEN <<>>
    ELSE <<[node |-> current, indent |-> level,
            name |-> h[current].data.name]>>
         \o HierarchyLines(h, h[current].parent, level + 1)

displayNodeInfo(h, node, show_separator) ==
    [node |-> node, sep |-> show_separator,
     name |-> h[node].data.name, code |-> h[node].data.code,
     level |-> h[node].data.level,
     chain |-> HierarchyLines(h, node, 0)]

\* st: found = *found, out = the blocks printed, trunc = the number of
\* "only the first 5" messages, examined = the nodes whose name was tested,
\* max_results = the limit, 5 unless the source is edited as the README says
RECURSIVE findByNameRecursive(_, _, _, _), findByNameInChildren(_, _, _, _, _)
RECURSIVE findByNameInChildrenReverse(_, _, _, _, _)

\* findByNameRecursive without the test of *found on entry
findByNameRecursiveNoGuard(h, r, name, st) ==
    IF r = NULL THEN st
    ELSE LET seen == [st EXCEPT !.examined = Append(@, r)]
         IN IF strstr(h[r].data.name, name) # NULL
            THEN LET hit == [seen EXCEPT
                               !.out = Append(@, displayNodeInfo(h, r,
                                                     st.found > 0)),
                               !.found = @ + 1]
                 IN IF hit.found >= st.max_results
                    THEN [hit EXCEPT !.trunc = @ + 1]
                    ELSE findByNameInChildren(h, r, name, hit, 0)
            ELSE findByNameInChildren(h, r, name, seen, 0)

findByNameRecursive(h, r, name, st) ==
    IF r = NULL \/ st.found >= st.max_results THEN st
    ELSE LET seen == [st EXCEPT !.examined = Append(@, r)]
         IN IF strstr(h[r].data.name, name) # NULL
            THEN LET hit == [seen EXCEPT
                               !.out = Append(@, displayNodeInfo(h, r,
                                                     st.found > 0)),
                               !.found = @ + 1]
                 IN IF hit.found >= st.max_results
                    THEN [hit EXCEPT !.trunc = @ + 1]
                    ELSE findByNameInChildren(h, r, name, hit, 0)
            ELSE findByNameInChildren(h, r, name, seen, 0)

\* the for loop visiting the children from the last to the first
findByNameInChildrenReverse(h, r, name, st, k) ==
    IF k >= h[r].child_count THEN st
    ELSE findByNameInChildrenReverse(h, r, name,
             findByNameRecursive(h, h[r].children[h[r].child_count - k],
                                 name, st), k + 1)

\* the for loop of findByNameRecursive, from child index k on
findByNameInChildren(h, r, name, st, k) ==
    IF k >= h[r].child_count THEN st
    ELSE findByNameInChildren(h, r, name,
             findByNameRecursive(h, h[r].children[k + 1], name, st), k + 1)

NameSearchStart ==
    [found |-> 0, out |-> <<>>, trunc |-> 0, examined |-> <<>>,
     max_results |-> MaxResults]

Result(op, arg, status, found, st) ==
    [op |-> op, arg |-> arg, status |-> status, found |-> found,
     out |-> st.out, trunc |-> st.trunc, examined |-> st.examined,
     count |-> st.found, max_results |-> st.max_results]

findByCode(h, node, code) ==
    IF validateCode(code) # 0
    THEN Result("findByCode", code, "invalid", NULL, NameSearchStart)
    ELSE LET found == findNodeByCode(h, node, code)
         IN IF found # NULL
            THEN Result("findByCode", code, "found", found,
                        [NameSearchStart EXCEPT
                            !.out = <<displayNodeInfo(h, found, FALSE)>>])
            ELSE Result("findByCode", code, "notfound", NULL,
                        NameSearchStart)

findByName(h, r, name, max_results) ==
    IF r = NULL \/ name = NullString \/ validateName(name) # 0
    THEN Result("findByName", name, "invalid", NULL, NameSearchStart)
    ELSE LET st == findByNameRecursive(h, r, name,
                       [NameSearchStart EXCEPT !.max_results = max_results])
         IN Result("findByName", name,
                   IF st.found = 0 THEN "notfound" ELSE "found", NULL, st)

(* ---------------------------------------------------------------------- *)
(* Renderings of Administrative_division_new.c                             *)
(* ---------------------------------------------------------------------- *)
AncestorLine(h, n) ==
    [node |-> n, level |-> h[n].data.level, name |-> h[n].data.name]

\* findByCode: while (current->parent != NULL) { current = current->parent;
\* print it }
RECURSIVE ParentLinesNew(_, _)
ParentLinesNew(h, current) ==
    IF h[current].parent = NULL THEN <<>>
    ELSE <<AncestorLine(h, h[current].parent)>>
         \o ParentLinesNew(h, h[current].parent)

findByCodeNew(h, node, code) ==
    LET found == findNodeByCode(h, node, code)
    IN IF found # NULL
       THEN Result("findByCodeNew", code, "found", found,
                   [NameSearchStart EXCEPT
                       !.out = <<[node |-> found, sep |-> FALSE,
                                  name |-> h[found].data.name,
                                  code |-> h[found].data.code,
                                  level |-> h[found].data.level,
                                  chain |-> ParentLinesNew(h, found)]>>])
       ELSE Result("findByCodeNew", code, "notfound", NULL, NameSearchStart)

\* the ancestor loop of findByNameRecursive: each parent is looked up by
\* parent_code with findNodeByCode from r, the node being visited.  visited
\* holds the values current has had; the loop has no other state, so a
\* repeated value means it never ends (hangs).
RECURSIVE CodeLinesNew(_, _, _, _)
CodeLinesNew(h, r, current, visited) ==
    IF current = NULL \/ strcmp(h[current].data.parent_code, Sentinel) = 0
    THEN [lines |-> <<>>, hangs |-> FALSE]
    ELSE LET parent == findNodeByCode(h, r, h[current].data.parent_code)
         IN IF parent = NULL THEN [lines |-> <<>>, hangs |-> FALSE]
            ELSE IF parent \in visited
            THEN [lines |-> <<AncestorLine(h, parent)>>, hangs |-> TRUE]
            ELSE LET rest == CodeLinesNew(h, r, parent,
                                          visited \cup {parent})
                 IN [lines |-> <<AncestorLine(h, parent)>> \o rest.lines,
                     hangs |-> rest.hangs]

RECURSIVE findByNameRecursiveNew(_, _, _, _), findByNameInChildrenNew(_, _, _, _, _)
findByNameRecursiveNew(h, r, name, st) ==
    IF st.hang \/ r = NULL \/ st.found >= MaxResults THEN st
    ELSE LET seen == [st EXCEPT !.examined = Append(@, r)]
         IN IF strstr(h[r].data.name, name) # NULL
            THEN LET current == findNodeByCode(h, r, h[r].data.code)
                     walk == CodeLinesNew(h, r, current, {current})
                     hit == [seen EXCEPT
                               !.out = Append(@,
                                   [node |-> r, sep |-> TRUE,
                                    name |-> h[r].data.name,
                                    code |-> h[r].data.code,
                                    level |-> h[r].data.level,
                                    chain |-> walk.lines]),
                               !.found = IF walk.hangs THEN @ ELSE @ + 1,
                               !.hang = walk.hangs]
                 IN IF hit.hang THEN hit
                    ELSE IF hit.found >= MaxResults
                    THEN [hit EXCEPT !.trunc = @ + 1]
                    ELSE findByNameInChildrenNew(h, r, name, hit, 0)
            ELSE findByNameInChildrenNew(h, r, name, seen, 0)

findByNameInChildrenNew(h, r, name, st, k) ==
    IF k >= h[r].child_count THEN st
    ELSE findByNameInChildrenNew(h, r, name,
             findByNameRecursiveNew(h, h[r].children[k + 1], name, st),
             k + 1)

findByNameNew(h, r, name) ==
    IF r = NULL
    THEN Result("findByNameNew", name, "invalid", NULL, NameSearchStart)
    ELSE LET st == findByNameRecursiveNew(h, r, name,
                       [found |-> 0, out |-> <<>>, trunc |-> 0,
                        examined |-> <<>>, max_results |-> MaxResults,
                        hang |-> FALSE])
         IN Result("findByNameNew", name,
                   IF st.hang THEN "hang"
                   ELSE IF st.found = 0 THEN "notfound" ELSE "found",
                   NULL, st)

(* ---------------------------------------------------------------------- *)
(* Queries of the menu loop                                                *)
(* ---------------------------------------------------------------------- *)
NameJing == <<20140>>
NameZhong == <<20013>>
NameShi == <<24066>>
NameHai == <<28023>>
NameBei == <<21271, 20140>>
QueryNames == {NameJing, NameZhong, NameShi, NameHai, NameBei, <<>>}
\* the limit of the name search: 5 as shipped, 1 after the edit of the README
ResultCaps == {1, MaxResults}
QueryCodes ==
    {Sentinel, RootCode, Missing} \cup
    {regions[k].code : k \in 1..size}

CallFindNodeByCode ==
    /\ pc = "menu"
    /\ \E code \in QueryCodes :
          LET found == findNodeByCode(heap, root, code)
          IN q' = Result("findNodeByCode", code,
                         IF found # NULL THEN "found" ELSE "notfound",
                         found, NameSearchStart)
    /\ pc' = "shown"
    /\ UNCHANGED <<regions, size, heap, nodes, codeToNode, root, i, allocated, freed, result, kept>>

\* menu case 1 with a lookup that re-hangs the node it found under the root
CallFindByCodeCompress ==
    /\ pc = "menu"
    /\ \E code \in QueryCodes :
          /\ q' = findByCode(heap, root, code)
          /\ heap' = IF q'.found # NULL
                     THEN [heap EXCEPT ![q'.found].parent = root]
                     ELSE heap
    /\ pc' = "shown"
    /\ UNCHANGED <<regions, size, nodes, codeToNode, root, i, allocated, freed, result, kept>>

CallFindByCode ==
    /\ pc = "menu"
    /\ \E code \in QueryCodes : q' = findByCode(heap, root, code)
    /\ pc' = "shown"
    /\ UNCHANGED <<regions, size, heap, nodes, codeToNode, root, i, allocated, freed, result, kept>>

\* menu case 2 with a search that cuts the name of each node it shows
CallFindByNameStrtok ==
    /\ pc = "menu"
    /\ \E name \in QueryNames, max_results \in ResultCaps :
          /\ q' = findByName(heap, root, name, max_results)
          /\ heap' = [n \in 1..Len(heap) |->
                        IF \E k \in 1..Len(q'.out) : q'.out[k].node = n
                        THEN [heap[n] EXCEPT !.data.name = <<>>]
                        ELSE heap[n]]
    /\ pc' = "shown"
    /\ UNCHANGED <<regions, size, nodes, codeToNode, root, i, allocated, freed, result, kept>>

CallFindByName ==
    /\ pc = "menu"
    /\ \E name \in QueryNames, max_results \in ResultCaps :
          q' = findByName(heap, root, name, max_results)
    /\ pc' = "shown"
    /\ UNCHANGED <<regions, size, heap, nodes, codeToNode, root, i, allocated, freed, result, kept>>

CallFindByCodeNew ==
    /\ pc = "menu"
    /\ \E code \in QueryCodes : q' = findByCodeNew(heap, root, code)
    /\ pc' = "shown"
    /\ UNCHANGED <<regions, size, heap, nodes, codeToNode, root, i, allocated, freed, result, kept>>

CallFindByNameNew ==
    /\ pc = "menu"
    /\ \E name \in QueryNames : q' = findByNameNew(heap, root, name)
    /\ pc' = "shown"
    /\ UNCHANGED <<regions, size, heap, nodes, codeToNode, root, i, allocated, freed, result, kept>>

\* the query's output is complete; showMainMenu prompts again
MenuLoop ==
    /\ pc = "shown"
    /\ pc' = "menu"
    /\ q' = NoQuery
    /\ UNCHANGED <<regions, size, heap, nodes, codeToNode, root, i, allocated, freed, result, kept>>

\* choice 3: showMainMenu returns 0 to main
MenuExit ==
    /\ pc = "menu"
    /\ result' = 0
    /\ pc' = "teardown"
    /\ UNCHANGED <<regions, size, heap, nodes, codeToNode, root, i, q,
                   allocated, freed, kept>>

\* main: freeTree(root); free(regions); return result
Teardown ==
    /\ pc = "teardown"
    /\ freed' = freed \o freeTree(heap, root) \o <<RegionsBlock>>
    /\ pc' = "exit"
    /\ UNCHANGED <<regions, size, heap, nodes, codeToNode, root, i, q,
                   allocated, result, kept>>

\* the program when every allocation succeeds
Next ==
    \/ LoadRegions
    \/ AllocArrays
    \/ CreateNodeStep
    \/ SortIndex
    \/ CreateRoot
    \/ LinkStep
    \/ BuildReturn
    \/ CallFindNodeByCode
    \/ CallFindByCode
    \/ CallFindByName
    \/ CallFindByCodeNew
    \/ CallFindByNameNew
    \/ MenuLoop
    \/ MenuExit
    \/ Teardown

Spec == Init /\ [][Next]_vars

\* the program of Administrative_division.c when any allocation may fail
InputsAlloc == InputsC \cup {Scenario1, <<>>}

InitAlloc == Init /\ regions \in InputsAlloc

NextAlloc ==
    \/ LoadRegions
    \/ MainAllocFail
    \/ AllocArrays
    \/ AllocNodesFail
    \/ AllocIndexFail
    \/ CreateNodeStep
    \/ CreateNodeFail
    \/ SortIndex
    \/ CreateRoot
    \/ CreateRootFail
    \/ LinkStep
    \/ BuildReturn
    \/ BuildFailed
    \/ CallFindByCode
    \/ CallFindByName
    \/ MenuLoop
    \/ MenuExit
    \/ Teardown

SpecAlloc == InitAlloc /\ [][NextAlloc]_vars

(* ---------------------------------------------------------------------- *)
(* Vocabulary of the properties                                            *)
(* ---------------------------------------------------------------------- *)
Range(s) == {s[k] : k \in 1..Len(s)}

\* buildTree has returned
Built == pc \in {"menu", "shown"}

\* createNode stores the node of regions[k] at heap index k
RecordNode(k) == k

Kids(n) == Range(heap[n].children)

RECURSIVE ChildClosure(_)
ChildClosure(S) ==
    LET T == S \cup UNION {Kids(n) : n \in S}
    IN IF T = S THEN S ELSE ChildClosure(T)

\* the nodes reachable from the root by child links
Reach == IF root = NULL THEN {} ELSE ChildClosure({root})

InputCodes == {regions[k].code : k \in 1..size}

UniqueCodes ==
    \A a, b \in 1..size : a # b => regions[a].code # regions[b].code

\* following parent_code links from record k ends at the sentinel within
\* fuel links
RECURSIVE Resolves(_, _)
Resolves(k, fuel) ==
    \/ regions[k].parent_code = Sentinel
    \/ /\ fuel > 0
       /\ \E j \in 1..size :
             /\ regions[j].code = regions[k].parent_code
             /\ Resolves(j, fuel - 1)

WellFormed == UniqueCodes /\ \A k \in 1..size : Resolves(k, size)

Orphan(k) ==
    /\ regions[k].parent_code # Sentinel
    /\ regions[k].parent_code \notin InputCodes

\* q is the outcome of a code lookup that searched the tree
Lookup ==
    /\ pc = "shown"
    /\ q.op \in {"findNodeByCode", "findByCode", "findByCodeNew"}
    /\ q.status # "invalid"

(* ---------------------------------------------------------------------- *)
(* C1  Build completeness: with unique codes and parent chains that all    *)
(* end at the sentinel, the tree under the returned root has size + 1      *)
(* nodes and contains the node of every record.                            *)
(* ---------------------------------------------------------------------- *)
C1_BuildComplete ==
    (Built /\ WellFormed) =>
        /\ root # NULL
        /\ Cardinality(Reach) = size + 1
        /\ \A k \in 1..size : RecordNode(k) \in Reach

C1_Witness ==
    /\ Built
    /\ WellFormed
    /\ size >= 3
    /\ \E k, j \in 1..size :
          /\ regions[k].parent_code = regions[j].code
          /\ regions[j].parent_code # Sentinel
    /\ Cardinality(Reach) = size + 1

(* ---------------------------------------------------------------------- *)
(* C2  Orphan handling, as claimed: a record whose parent_code is neither  *)
(* the sentinel nor any record's code leaves the build successful, its     *)
(* node unreachable, and a lookup of its own code not found.               *)
(* ---------------------------------------------------------------------- *)
C2_OrphanLookupFails ==
    \A k \in 1..size :
        (Built /\ Orphan(k)) =>
            /\ root # NULL
            /\ RecordNode(k) \notin Reach
            /\ (Lookup /\ q.arg = regions[k].code) => q.found = NULL

\* C2 as amended: the lookup never returns the orphan's node, and it is not
\* found exactly when no node reachable from the root carries that code
C2_OrphanNeverReturned ==
    \A k \in 1..size :
        (Built /\ Orphan(k)) =>
            /\ root # NULL
            /\ RecordNode(k) \notin Reach
            /\ (Lookup /\ q.arg = regions[k].code) =>
                  /\ q.found # RecordNode(k)
                  /\ q.found = NULL <=>
                        ~ \E n \in Reach : heap[n].data.code = q.arg

C2_Witness ==
    \E k \in 1..size :
        /\ Built
        /\ Orphan(k)
        /\ size >= 2
        /\ Lookup
        /\ q.arg = regions[k].code
        /\ q.found = NULL

(* ---------------------------------------------------------------------- *)
(* C3  Code lookup of present codes, as claimed: with unique codes, the    *)
(* lookup of a record's code returns that record's node.                   *)
(* ---------------------------------------------------------------------- *)
C3_PresentCodeFound ==
    \A k \in 1..size :
        (UniqueCodes /\ Lookup /\ q.arg = regions[k].code) =>
            q.found = RecordNode(k)

\* C3 as amended: the record's node is returned when it is reachable from
\* the root and its code is not the root's reserved code; the root is
\* returned for the reserved code; an unreachable record is not found
C3_ReachableCodeFound ==
    \A k \in 1..size :
        (UniqueCodes /\ Lookup /\ q.arg = regions[k].code) =>
            /\ q.arg = RootCode => q.found = root
            /\ (q.arg # RootCode /\ RecordNode(k) \in Reach) =>
                  q.found = RecordNode(k)
            /\ (q.arg # RootCode /\ RecordNode(k) \notin Reach) =>
                  q.found = NULL

C3_Witness ==
    \E k, j \in 1..size :
        /\ UniqueCodes
        /\ Lookup
        /\ size >= 3
        /\ regions[k].parent_code = regions[j].code
        /\ heap[root].children[1] # RecordNode(j)
        /\ q.arg = regions[k].code
        /\ q.found = RecordNode(k)

(* ---------------------------------------------------------------------- *)
(* C4  Code lookup of absent codes, as claimed: a code that no record      *)
(* carries is not found, the root's reserved code included.                *)
(* ---------------------------------------------------------------------- *)
C4_AbsentCodeNotFound ==
    (Lookup /\ q.arg \notin InputCodes) => q.found = NULL

\* C4 as amended: not found, except that the reserved code finds the root
C4_AbsentCodeNotFoundButRoot ==
    (Lookup /\ q.arg \notin InputCodes) =>
        /\ q.arg # RootCode => (q.found = NULL /\ q.status = "notfound")
        /\ q.arg = RootCode => (q.found = root /\ q.status = "found")

C4_Witness ==
    /\ Lookup
    /\ size >= 2
    /\ q.arg = Missing
    /\ q.arg \notin InputCodes
    /\ q.status = "notfound"

(* ---------------------------------------------------------------------- *)
(* Vocabulary of the name search                                           *)
(* ---------------------------------------------------------------------- *)
\* p occurs in s as a contiguous run of characters
Contains(s, p) ==
    \E k \in 0..(Len(s) - Len(p)) : SubSeq(s, k + 1, k + Len(p)) = p

\* depth-first pre-order by child links: a node, then the pre-order of each
\* child in the order of the child collection
RECURSIVE Preorder(_), PreorderOfKids(_, _)
Preorder(n) == <<n>> \o PreorderOfKids(n, 1)
PreorderOfKids(n, k) ==
    IF k > Len(heap[n].children) THEN <<>>
    ELSE Preorder(heap[n].children[k]) \o PreorderOfKids(n, k + 1)

Matches(n, p) == Contains(heap[n].data.name, p)

\* the matching nodes in pre-order from the root
MatchSeq(p) == SelectSeq(Preorder(root), LAMBDA n : Matches(n, p))

Take(s, n) == SubSeq(s, 1, IF Len(s) < n THEN Len(s) ELSE n)

Emitted == [k \in 1..Len(q.out) |-> q.out[k].node]

\* q is the outcome of a findByName call that traversed the tree
NameSearch ==
    /\ pc = "shown"
    /\ q.op = "findByName"
    /\ q.status # "invalid"

(* ---------------------------------------------------------------------- *)
(* C5  Name lookup containment: every emitted node's name contains the     *)
(* pattern; every reachable node whose name contains it is emitted or the  *)
(* truncation message was printed; with fewer matches than the limit all   *)
(* of them are emitted.                                                    *)
(* ---------------------------------------------------------------------- *)
C5_NameContainment ==
    NameSearch =>
        /\ \A k \in 1..Len(q.out) :
              /\ q.out[k].node \in Reach
              /\ q.out[k].name = heap[q.out[k].node].data.name
              /\ Contains(q.out[k].name, q.arg)
        /\ \A n \in Reach :
              Matches(n, q.arg) => (n \in Range(Emitted) \/ q.trunc >= 1)
        /\ Cardinality({n \in Reach : Matches(n, q.arg)}) < q.max_results =>
              Range(Emitted) = {n \in Reach : Matches(n, q.arg)}

C5_Witness ==
    /\ NameSearch
    /\ q.max_results = MaxResults
    /\ q.trunc = 0
    /\ Len(q.out) >= 2
    /\ Len(q.arg) = 2
    /\ \E n \in Reach : ~Matches(n, q.arg) /\ n # root

(* ---------------------------------------------------------------------- *)
(* C6  Name lookup cap: at most max_results blocks are emitted; the        *)
(* truncation message is printed once, exactly when the max_results-th     *)
(* match is emitted, and no node is examined after that match; with fewer  *)
(* matches than the limit it is never printed.  3 matches under a limit of *)
(* 1 give 1 result and the message; 2 matches under 5 give both and none.  *)
(* ---------------------------------------------------------------------- *)
C6_NameCap ==
    NameSearch =>
        LET matching == Cardinality({n \in Reach : Matches(n, q.arg)})
        IN /\ Len(q.out) <= q.max_results
           /\ q.count = Len(q.out)
           /\ q.trunc \in {0, 1}
           /\ q.trunc = 1 <=> Len(q.out) = q.max_results
           /\ q.trunc = 1 =>
                 q.examined[Len(q.examined)] = q.out[Len(q.out)].node
           /\ matching < q.max_results => q.trunc = 0
           /\ (q.max_results = 1 /\ matching = 3) =>
                 (Len(q.out) = 1 /\ q.trunc = 1)
           /\ (q.max_results = 5 /\ matching = 2) =>
                 (Len(q.out) = 2 /\ q.trunc = 0)

C6_Witness ==
    /\ NameSearch
    /\ q.max_results = MaxResults
    /\ q.trunc = 1
    /\ \E n \in Reach : n \notin Range(q.examined)

(* ---------------------------------------------------------------------- *)
(* C7  Name lookup order: the emitted nodes are the matching nodes in      *)
(* depth-first pre-order from the root, cut at the limit.                  *)
(* ---------------------------------------------------------------------- *)
C7_NameOrder ==
    NameSearch => Emitted = Take(MatchSeq(q.arg), q.max_results)

\* emitted neither in input order nor in code order
C7_Witness ==
    /\ NameSearch
    /\ Len(q.out) >= 3
    /\ \E k \in 1..(Len(q.out) - 1) : q.out[k].node > q.out[k + 1].node
    /\ \E k \in 1..(Len(q.out) - 1) :
          strcmp(q.out[k].code, q.out[k + 1].code) > 0

(* ---------------------------------------------------------------------- *)
(* Vocabulary of the ancestor chain                                        *)
(* ---------------------------------------------------------------------- *)
\* the node whose child collection holds n
KidParent(n) == CHOOSE p \in Reach : n \in Kids(p)

\* n and its proper ancestors by child links, child first, root excluded
RECURSIVE PathToRoot(_)
PathToRoot(n) == IF n = root THEN <<>> ELSE <<n>> \o PathToRoot(KidParent(n))

Depth(n) == Len(PathToRoot(n))

ChainNodes(block) == [k \in 1..Len(block.chain) |-> block.chain[k].node]

\* the nodes a code lookup lists: the hierarchy lines of displayNodeInfo;
\* for Administrative_division_new.c the found node of the header, then the
\* lines of the parent loop
Listed(block) ==
    IF q.op = "findByCodeNew" /\ block.node # root
    THEN <<block.node>> \o ChainNodes(block)
    ELSE ChainNodes(block)

FoundByCode ==
    /\ pc = "shown"
    /\ q.op \in {"findByCode", "findByCodeNew"}
    /\ q.status = "found"

C9_NameChainEqualsCodeChain ==
    (pc = "shown" /\ q.op = "findByNameNew" /\ q.status = "found") =>
        \A k \in 1..Len(q.out) :
            LET byCode == findByCodeNew(heap, root, q.out[k].code)
            IN byCode.found = q.out[k].node =>
                  q.out[k].chain =
                      SelectSeq(byCode.out[1].chain,
                                LAMBDA line : line.node # root)

(* ---------------------------------------------------------------------- *)
(* C10  Ancestor-chain bound, as claimed: for every node displayNodeInfo   *)
(* renders, the parent walk takes at most level steps and the last node it *)
(* lists has level 1.                                                      *)
(* ---------------------------------------------------------------------- *)
Rendered ==
    /\ pc = "shown"
    /\ q.op \in {"findByCode", "findByName"}
    /\ q.status = "found"

C10_WalkWithinLevel ==
    Rendered =>
        \A k \in 1..Len(q.out) :
            /\ Len(q.out[k].chain) <= q.out[k].level
            /\ q.out[k].chain # <<>> =>
                  heap[q.out[k].chain[Len(q.out[k].chain)].node].data.level
                     = 1

\* every top-level record has level 1 and every other record one level more
\* than each record its parent_code names
LevelsConsistent ==
    \A k \in 1..size :
        /\ regions[k].parent_code = Sentinel => regions[k].level = 1
        /\ regions[k].parent_code # Sentinel =>
              \A j \in 1..size :
                  regions[j].code = regions[k].parent_code =>
                      regions[k].level = regions[j].level + 1

\* C10 as amended: the walk takes as many steps as the node is deep and its
\* last line is a child of the root; with consistent levels that is level
\* steps, ending at a node of level 1
C10_WalkIsDepth ==
    Rendered =>
        \A k \in 1..Len(q.out) :
            /\ Len(q.out[k].chain) = Depth(q.out[k].node)
            /\ q.out[k].chain # <<>> =>
                  q.out[k].chain[Len(q.out[k].chain)].node \in Kids(root)
            /\ LevelsConsistent =>
                  /\ Len(q.out[k].chain) = q.out[k].level
                  /\ q.out[k].chain # <<>> =>
                        heap[q.out[k].chain[Len(q.out[k].chain)].node]
                            .data.level = 1

C10_Witness ==
    /\ Rendered
    /\ LevelsConsistent
    /\ \E k \in 1..Len(q.out) :
          /\ q.out[k].level = 2
          /\ Len(q.out[k].chain) = 2

(* ---------------------------------------------------------------------- *)
(* C11: single parent                                                      *)
(* ---------------------------------------------------------------------- *)
\* the places (p, k) where node n sits in a child collection
Holders(n) ==
    UNION { { <<p, k>> : k \in {j \in 1..heap[p].child_count :
                                   heap[p].children[j] = n} }
            : p \in 1..Len(heap) }

\* C11 as stated: after buildTree returns every record node has a non-null
\* parent back-reference.
C11_EveryNodeHasParent ==
    Built => \A k \in 1..size : heap[RecordNode(k)].parent # NULL

\* after buildTree returns a record node whose parent_code is the sentinel
\* or the code of some record has a non-null parent and sits in exactly one
\* place, the child collection of that parent; every other record node has
\* a null parent and sits in no child collection; the root has no parent
ParentsAfterBuild ==
    Built =>
       /\ heap[root].parent = NULL
       /\ Holders(root) = {}
       /\ \A k \in 1..size :
             LET n == RecordNode(k)
             IN IF Orphan(k)
                THEN heap[n].parent = NULL /\ Holders(n) = {}
                ELSE /\ heap[n].parent # NULL
                     /\ Cardinality(Holders(n)) = 1
                     /\ \A h \in Holders(n) : h[1] = heap[n].parent

\* a step never changes a parent field that is already set
ParentWrittenOnce ==
    \A n \in 1..Len(heap) :
       heap[n].parent # NULL =>
          /\ n <= Len(heap')
          /\ heap'[n].parent = heap[n].parent

\* C11: every record node has at most one parent: non-null exactly when its
\* parent_code is the sentinel or matches a record, and then the node sits
\* in that parent's child collection only; a parent field, once written, is
\* never written again.
C11_SingleParent == []ParentsAfterBuild /\ [][ParentWrittenOnce]_vars

\* a built tree with an orphan and a record attached under another record
C11_Witness ==
    /\ Built
    /\ \E k \in 1..size : Orphan(k)
    /\ \E k \in 1..size : heap[RecordNode(k)].parent \in 1..size

(* ---------------------------------------------------------------------- *)
(* The traversals, one step per call, loop iteration or return             *)
(* ---------------------------------------------------------------------- *)
MaxLive == 2

\* inputs with free codes and parent codes: self-parents, two-record cycles
InputsLive == {r \in InputsA : Len(r) <= MaxLive}

InitLive == Init /\ regions \in InputsLive

\* a frame of the recursion: the node visited and the position reached
\* (0: the tests before the loop, -1: inside displayNodeInfo, k >= 1: the
\* loop about to visit child number k)
Frame(n, k) == [node |-> n, k |-> k]

Top == q.stack[Len(q.stack)]

\* the state of a query that has just been called on the root
Started(op, arg) ==
    [op |-> op, arg |-> arg, stack |-> <<Frame(root, 0)>>,
     ret |-> NULL, found |-> 0, current |-> NULL]

\* the running call returns v to its caller; findByCode goes on to
\* displayNodeInfo when findNodeByCode hands it a node
Return(v, count) ==
    IF Len(q.stack) = 1 /\ q.op = "findByCode" /\ v # NULL
    THEN /\ q' = [q EXCEPT !.stack = <<>>, !.ret = v, !.current = v]
         /\ pc' = "running"
    ELSE /\ q' = [q EXCEPT !.stack = SubSeq(@, 1, Len(@) - 1),
                           !.ret = v, !.found = count]
         /\ pc' = IF Len(q.stack) = 1 THEN "shown" ELSE "running"

\* the running call moves to position k
Advance(k, count) ==
    /\ q' = [q EXCEPT !.stack[Len(q.stack)].k = k, !.found = count]
    /\ pc' = "running"

\* the running call invokes itself on its child number k
Call(k) ==
    /\ q' = [q EXCEPT !.stack = Append([@ EXCEPT ![Len(@)].k = k + 1],
                                       Frame(heap[Top.node].children[k], 0)),
                      !.ret = NULL]
    /\ pc' = "running"

\* menu case 1 with a well-formed code: findByCode calls findNodeByCode
StartFindByCode ==
    /\ pc = "menu"
    /\ \E code \in QueryCodes :
          /\ validateCode(code) = 0
          /\ q' = Started("findByCode", code)
    /\ pc' = "running"
    /\ UNCHANGED <<regions, size, heap, nodes, codeToNode, root, i,
                   allocated, freed, result, kept>>

\* one call, loop test or return of findNodeByCode
StepFindNodeByCode ==
    /\ pc = "running"
    /\ q.op = "findByCode"
    /\ q.stack # <<>>
    /\ IF Top.k = 0
       THEN IF Top.node = NULL
            THEN Return(NULL, 0)
            ELSE IF strcmp(heap[Top.node].data.code, q.arg) = 0
                 THEN Return(Top.node, 0)
                 ELSE Advance(1, 0)
       ELSE IF q.ret # NULL
            THEN Return(q.ret, 0)
            ELSE IF Top.k > heap[Top.node].child_count
                 THEN Return(NULL, 0)
                 ELSE Call(Top.k)
    /\ UNCHANGED <<regions, size, heap, nodes, codeToNode, root, i,
                   allocated, freed, result, kept>>

\* menu case 2 with a valid name: findByName calls findByNameRecursive
StartFindByName ==
    /\ pc = "menu"
    /\ \E name \in QueryNames :
          /\ validateName(name) = 0
          /\ q' = Started("findByName", name)
    /\ pc' = "running"
    /\ UNCHANGED <<regions, size, heap, nodes, codeToNode, root, i,
                   allocated, freed, result, kept>>

\* one call, loop test or return of findByNameRecursive; a match enters
\* displayNodeInfo
StepFindByNameRecursive ==
    /\ pc = "running"
    /\ q.op = "findByName"
    /\ q.current = NULL
    /\ IF Top.k = 0
       THEN IF Top.node = NULL \/ q.found >= MaxResults
            THEN Return(NULL, q.found)
            ELSE IF strstr(heap[Top.node].data.name, q.arg) # NULL
                 THEN /\ q' = [q EXCEPT !.stack[Len(q.stack)].k = -1,
                                        !.current = Top.node]
                      /\ pc' = "running"
                 ELSE Advance(1, q.found)
       ELSE IF Top.k = -1
            THEN IF q.found + 1 >= MaxResults
                 THEN Return(NULL, q.found + 1)
                 ELSE Advance(1, q.found + 1)
            ELSE IF Top.k > heap[Top.node].child_count
                 THEN Return(NULL, q.found)
                 ELSE Call(Top.k)
    /\ UNCHANGED <<regions, size, heap, nodes, codeToNode, root, i,
                   allocated, freed, result, kept>>

\* displayNodeInfo: one test of while (current && current->parent) and, if
\* it holds, one iteration; the loop's exit returns to the caller
StepHierarchy ==
    /\ pc = "running"
    /\ q.current # NULL
    /\ IF heap[q.current].parent # NULL
       THEN /\ q' = [q EXCEPT !.current = heap[q.current].parent]
            /\ pc' = "running"
       ELSE /\ q' = [q EXCEPT !.current = NULL]
            /\ pc' = IF q.stack = <<>> THEN "shown" ELSE "running"
    /\ UNCHANGED <<regions, size, heap, nodes, codeToNode, root, i,
                   allocated, freed, result, kept>>

NextLive ==
    \/ LoadRegions
    \/ AllocArrays
    \/ CreateNodeStep
    \/ SortIndex
    \/ CreateRoot
    \/ LinkStep
    \/ BuildReturn
    \/ StartFindByCode
    \/ StepFindNodeByCode
    \/ StartFindByName
    \/ StepFindByNameRecursive
    \/ StepHierarchy
    \/ MenuLoop

\* a call that has started keeps executing
SpecLive ==
    /\ InitLive
    /\ [][NextLive]_vars
    /\ WF_vars(StepFindNodeByCode)
    /\ WF_vars(StepFindByNameRecursive)
    /\ WF_vars(StepHierarchy)

(* ---------------------------------------------------------------------- *)
(* C12: termination                                                        *)
(* ---------------------------------------------------------------------- *)
\* record a's parent chain leads back to a
SelfParent(a) == regions[a].parent_code = regions[a].code
TwoCycle(a, b) ==
    /\ regions[a].code # regions[b].code
    /\ regions[a].parent_code = regions[b].code
    /\ regions[b].parent_code = regions[a].code

\* C12: every query that is started on the built tree (findByCode with
\* findNodeByCode and displayNodeInfo, findByName with findByNameRecursive
\* and displayNodeInfo) runs to completion, whatever the input records,
\* cycles of parent codes and self-parents included.
C12_QueriesTerminate == (pc = "running") ~> (pc = "shown")

\* a query has completed on a tree built from records forming a cycle
C12_Witness ==
    /\ pc = "shown"
    /\ q.op \in {"findByCode", "findByName"}
    /\ \/ \E a \in 1..size : SelfParent(a)
       \/ \E a, b \in 1..size : TwoCycle(a, b)

(* ---------------------------------------------------------------------- *)
(* C13: repeated queries                                                   *)
(* ---------------------------------------------------------------------- *)
InputsRepeat == InputsLive \cup {Scenario1}

InitRepeat == Init /\ regions \in InputsRepeat

\* the menu loop going round while the output of one earlier query is kept
\* for comparison
MenuLoopRemember ==
    /\ pc = "shown"
    /\ pc' = "menu"
    /\ q' = NoQuery
    /\ kept' \in {kept, q}
    /\ UNCHANGED <<regions, size, heap, nodes, codeToNode, root, i,
                   allocated, freed, result>>

NextRepeat ==
    \/ LoadRegions
    \/ AllocArrays
    \/ CreateNodeStep
    \/ SortIndex
    \/ CreateRoot
    \/ LinkStep
    \/ BuildReturn
    \/ CallFindNodeByCode
    \/ CallFindByCode
    \/ CallFindByName
    \/ MenuLoopRemember

SpecRepeat == InitRepeat /\ [][NextRepeat]_vars

\* q answers the query whose output was kept
SameQuery ==
    /\ pc = "shown"
    /\ kept # NoQuery
    /\ q.op = kept.op
    /\ q.arg = kept.arg
    /\ q.max_results = kept.max_results

C14_QueriesReadOnly == [][Built => heap' = heap /\ root' = root]_vars

\* a name search has shown two nodes with their hierarchies
C14_Witness ==
    /\ pc = "shown"
    /\ q.op = "findByName"
    /\ q.count >= 2
    /\ \E k \in 1..Len(q.out) : Len(q.out[k].chain) >= 2

(* ---------------------------------------------------------------------- *)
(* C15: teardown                                                           *)
(* ---------------------------------------------------------------------- *)
\* main has returned after freeTree(root) and free(regions)
TornDown == pc = "exit" /\ root # NULL

\* C15: after buildTree has succeeded and freeTree(root) has run, the
\* struct and the children array of every node the build allocated (one per
\* record, and the root) have been released.
C15_TeardownReleasesAll ==
    TornDown =>
       \A n \in 1..size + 1 :
          /\ NodeBlock(n) \in Range(freed)
          /\ ChildrenBlock(n) \in Range(freed)

(* ---------------------------------------------------------------------- *)
(* C16: allocation failure in buildTree                                    *)
(* ---------------------------------------------------------------------- *)
\* the blocks buildTree and createNode have obtained
BuildBlocks == allocated \ {RegionsBlock}

NoDoubleFree == Cardinality(Range(freed)) = Len(freed)

\* C16: when malloc fails for nodes, for codeToNode, for a record node or
\* for the root, buildTree returns NULL and every block it had obtained
\* has been released, each exactly once.
C16_BuildFailureReleasesAll ==
    pc = "failed" =>
       /\ root = NULL
       /\ Range(freed) = BuildBlocks
       /\ NoDoubleFree

\* createNode failed for the third record after two nodes were created
C16_Witness ==
    /\ pc = "failed"
    /\ Len(heap) = 2
    /\ size = 3
    /\ Len(freed) >= 6

(* ---------------------------------------------------------------------- *)
(* C17: order of load, build, queries and teardown in main                 *)
(* ---------------------------------------------------------------------- *)
TreeFreed == root # NULL /\ NodeBlock(root) \in Range(freed)

\* a step of main respects the order: a query runs and the menu is entered
\* only with a non-zero record count, a non-NULL root and the tree not
\* freed; an empty load or a failed build is followed by the return of 1;
\* freeTree runs from the statement after showMainMenu only
MainOrder ==
    /\ pc' \in {"menu", "shown"} =>
          size # 0 /\ root' # NULL /\ ~TreeFreed /\ ~TreeFreed'
    /\ pc' = "shown" => pc = "menu"
    /\ (size = 0 \/ pc = "failed") => pc' = "exit" /\ result' = 1
    /\ (TreeFreed' /\ ~TreeFreed) => pc = "teardown" /\ pc' = "exit"
    /\ pc' = "teardown" => pc = "menu"

\* C17: main runs queries only after a non-empty load and a successful
\* build; otherwise it returns 1 without entering the menu; freeTree runs
\* only after the menu loop has ended and no query follows it.
C17_BuildBeforeQuery == [][MainOrder]_vars

\* main has returned 1 after buildTree failed part-way
C17_Witness ==
    /\ pc = "exit"
    /\ result = 1
    /\ size # 0
    /\ root = NULL
    /\ Len(heap) >= 1

(* ---------------------------------------------------------------------- *)
(* C18: child order and membership                                         *)
(* ---------------------------------------------------------------------- *)
RecordNodes == [k \in 1..size |-> RecordNode(k)]

\* the record nodes whose parent back-reference is p, in input order
AttachedTo(p) == SelectSeq(RecordNodes, LAMBDA n : heap[n].parent = p)

\* the nodes of the records carrying the sentinel, in input order
SentinelRecords ==
    SelectSeq(RecordNodes, LAMBDA n : regions[n].parent_code = Sentinel)

\* C18: after buildTree the child collection of every node, the root
\* included, is the sequence of the record nodes attached to it, in input
\* order, and the root's children are the records whose parent_code is the
\* sentinel, in input order.
C18_ChildOrder ==
    Built =>
       /\ \A p \in 1..Len(heap) :
             /\ heap[p].children = AttachedTo(p)
             /\ heap[p].child_count = Len(heap[p].children)
       /\ heap[root].children = SentinelRecords

\* a record node holds three children, the root holds one
C18_Witness ==
    /\ Built
    /\ heap[root].child_count >= 1
    /\ \E p \in 1..size : heap[p].child_count >= 3

(* ---------------------------------------------------------------------- *)
(* C19: scenario 1                                                         *)
(* ---------------------------------------------------------------------- *)
NamesOf(ns) == [k \in 1..Len(ns) |-> heap[ns[k]].data.name]

ChainNames(block) == [k \in 1..Len(block.chain) |-> block.chain[k].name]

Scenario1Lookup(op) ==
    /\ regions = Scenario1
    /\ pc = "shown"
    /\ q.op = op
    /\ q.arg = Code1101

\* C19 as stated: the root has the one child "Beijing", which has the one
\* child "Dongcheng", and the lookup of "1101" succeeds with Beijing as the
\* only ancestor listed.
C19_Scenario1AsStated ==
    Scenario1Lookup("findByCode") =>
       /\ NamesOf(heap[root].children) = <<NameBeijingLatin>>
       /\ NamesOf(heap[RecordNode(2)].children) = <<NameDongcheng>>
       /\ q.status = "found"
       /\ ChainNames(q.out[1]) = <<NameBeijingLatin>>

\* C19: on the three records of scenario 1 the root has the two children
\* "Root" and "Beijing", in that order; "Root" has no child and "Beijing"
\* the one child "Dongcheng"; findByCode rejects "1101" as malformed;
\* findNodeByCode returns Dongcheng's node, whose hierarchy as rendered by
\* displayNodeInfo is Dongcheng, then Beijing.
C19_Scenario1 ==
    /\ (regions = Scenario1 /\ Built) =>
          /\ NamesOf(heap[root].children) = <<NameRoot, NameBeijingLatin>>
          /\ heap[RecordNode(1)].children = <<>>
          /\ NamesOf(heap[RecordNode(2)].children) = <<NameDongcheng>>
          /\ heap[RecordNode(3)].children = <<>>
    /\ Scenario1Lookup("findByCode") => q.status = "invalid" /\ q.out = <<>>
    /\ Scenario1Lookup("findNodeByCode") =>
          /\ q.found = RecordNode(3)
          /\ ChainNames(displayNodeInfo(heap, q.found, FALSE)) =
                <<NameDongcheng, NameBeijingLatin>>

\* "1101" has been looked up on the tree of scenario 1 and Dongcheng's node
\* was returned
C19_Witness ==
    /\ Scenario1Lookup("findNodeByCode")
    /\ q.found = RecordNode(3)

(* ---------------------------------------------------------------------- *)
(* C20: duplicate codes                                                    *)
(* ---------------------------------------------------------------------- *)
\* findNodeByCode has looked up a code that two records share
DupLookup ==
    /\ pc = "shown"
    /\ q.op = "findNodeByCode"
    /\ \E a, b \in 1..size : a # b /\ regions[a].code = q.arg
                                   /\ regions[b].code = q.arg

\* the nodes carrying code c, in pre-order from the root
CodeHits(c) == SelectSeq(Preorder(root), LAMBDA n : heap[n].data.code = c)

\* C20 as stated: the build is not rejected and the lookup returns the
\* first node with the code in pre-order from the root.
C20_DuplicateFirstWins ==
    DupLookup =>
       /\ root # NULL
       /\ q.found # NULL
       /\ CodeHits(q.arg) # <<>>
       /\ q.found = CodeHits(q.arg)[1]

\* C20: when two records share a code buildTree still returns a root and
\* has a node for each record; the lookup of the code returns the first
\* node carrying it in pre-order from the root, and not found when no node
\* carrying it is reachable from the root.
C20_DuplicateFirstReachableWins ==
    DupLookup =>
       /\ root # NULL
       /\ Len(heap) = size + 1
       /\ \A k \in 1..size : heap[RecordNode(k)].data = regions[k]
       /\ q.found = IF CodeHits(q.arg) = <<>> THEN NULL
                    ELSE CodeHits(q.arg)[1]

\* both records with the shared code are reachable and the first of them in
\* pre-order, which is not the first child of the root, is returned
C20_Witness ==
    /\ DupLookup
    /\ Len(CodeHits(q.arg)) >= 2
    /\ q.found = CodeHits(q.arg)[1]
    /\ q.found # heap[root].children[1]

(* ---------------------------------------------------------------------- *)
(* The build alone: the user leaves the menu at the first prompt           *)
(* ---------------------------------------------------------------------- *)
NextBuild ==
    \/ LoadRegions
    \/ AllocArrays
    \/ CreateNodeStep
    \/ SortIndex
    \/ CreateRoot
    \/ LinkStep
    \/ BuildReturn
    \/ MenuExit
    \/ Teardown

SpecBuild == Init /\ [][NextBuild]_vars

(* ---------------------------------------------------------------------- *)
(* C22: binary search against the linear scan                              *)
(* ---------------------------------------------------------------------- *)
\* the index is sorted and the linking loop is running
Linking == pc = "link"

ParentFound(k) ==
    BinarySearch(codeToNode, regions[k].parent_code, 0, size - 1)

ParentProbes(k) ==
    BinarySearchProbes(codeToNode, regions[k].parent_code, 0, size - 1)

\* C22: with unique codes, for every record whose parent_code is not the
\* sentinel the binary search finds a node exactly when some record carries
\* the parent code, the node found is the one the linear scan of the
\* earlier buildTree finds, every probed index is within 0 .. size-1, and
\* the search ends within size probes.
C22_BinarySearchIsLinearScan ==
    (Linking /\ UniqueCodes) =>
       \A k \in 1..size :
          regions[k].parent_code # Sentinel =>
             /\ ParentFound(k) # NULL <=>
                   regions[k].parent_code \in InputCodes
             /\ ParentFound(k) =
                   LinearScan(regions, nodes, regions[k].parent_code, 0)
             /\ \A j \in 1..Len(ParentProbes(k)) :
                   ParentProbes(k)[j] \in 0..size - 1
             /\ Len(ParentProbes(k)) <= size

\* a parent is found at the second probe or later
C22_Witness ==
    /\ Linking
    /\ UniqueCodes
    /\ \E k \in 1..size :
          /\ regions[k].parent_code # Sentinel
          /\ ParentFound(k) # NULL
          /\ Len(ParentProbes(k)) >= 2

(* ---------------------------------------------------------------------- *)
(* C23: which records are reachable                                        *)
(* ---------------------------------------------------------------------- *)
\* C23: after buildTree on records with unique codes, a record's node is
\* reachable from the root by child links exactly when following
\* parent_code links from the record reaches the sentinel.
C23_ReachableIffResolves ==
    (Built /\ UniqueCodes) =>
       \A k \in 1..size : RecordNode(k) \in Reach <=> Resolves(k, size)

\* a record whose own parent_code is the code of a record is unreachable,
\* while another record is reachable
C23_Witness ==
    /\ Built
    /\ UniqueCodes
    /\ \E k \in 1..size :
          /\ regions[k].parent_code \in InputCodes
          /\ RecordNode(k) \notin Reach
    /\ \E k \in 1..size : RecordNode(k) \in Reach

(* ---------------------------------------------------------------------- *)
(* C24: link consistency                                                   *)
(* ---------------------------------------------------------------------- *)
\* the capacities a child array can have: 10, 20, 40, ...
RECURSIVE IsCapacity(_)
IsCapacity(c) ==
    \/ c = InitialChildCapacity
    \/ /\ c > InitialChildCapacity
       /\ c % 2 = 0
       /\ IsCapacity(c \div 2)

\* the linking loop is running or has run
Linked == pc \in {"link", "menu", "shown", "teardown", "exit"} /\ root # NULL

\* C24: during and after the linking loop, node c is in the child
\* collection of node p exactly when c's parent is p, no node is held twice,
\* and every node has child_count <= child_capacity with child_capacity
\* being 10 doubled some number of times.
C24_LinkConsistency ==
    Linked =>
       \A c \in 1..Len(heap) :
          /\ \A p \in 1..Len(heap) :
                (\E h \in Holders(c) : h[1] = p) <=> heap[c].parent = p
          /\ Cardinality(Holders(c)) <= 1
          /\ heap[c].child_count <= heap[c].child_capacity
          /\ heap[c].child_count = Len(heap[c].children)
          /\ IsCapacity(heap[c].child_capacity)

\* the root's child array has been doubled to hold an eleventh child
C24_Witness ==
    /\ Linked
    /\ heap[root].child_capacity = 2 * InitialChildCapacity
    /\ heap[root].child_count = InitialChildCapacity + 1

(* ---------------------------------------------------------------------- *)
(* C25: no double release                                                  *)
(* ---------------------------------------------------------------------- *)
\* position of block b in the sequence of releases, 0 when absent
PosFreed(b) ==
    IF \E k \in 1..Len(freed) : freed[k] = b
    THEN CHOOSE k \in 1..Len(freed) : freed[k] = b
    ELSE 0

\* the nodes below n
Below(n) == ChildClosure({n}) \ {n}

\* C25: the structure reachable from the root is a tree (pre-order meets
\* every reachable node once), and after freeTree(root) every reachable
\* node and its child array has been released exactly once, each node after
\* all the nodes below it.
C25_NoDoubleRelease ==
    /\ Linked =>
          /\ Len(Preorder(root)) = Cardinality(Reach)
          /\ Range(Preorder(root)) = Reach
    /\ TornDown =>
          /\ NoDoubleFree
          /\ \A n \in Reach :
                /\ PosFreed(NodeBlock(n)) > 0
                /\ PosFreed(ChildrenBlock(n)) > 0
                /\ \A d \in Below(n) :
                      /\ PosFreed(NodeBlock(d)) < PosFreed(ChildrenBlock(n))
                      /\ PosFreed(ChildrenBlock(d)) < PosFreed(ChildrenBlock(n))

\* a tree three levels deep built from records with a duplicate code or a
\* self-parent has been released
C25_Witness ==
    /\ TornDown
    /\ \E n \in Reach : Below(n) # {} /\ n # root
    /\ \/ ~UniqueCodes
       \/ \E a \in 1..size : SelfParent(a)

(* ---------------------------------------------------------------------- *)
(* C26: the sentinel comes first                                           *)
(* ---------------------------------------------------------------------- *)
\* C26: a record whose parent_code is the sentinel is a child of the
\* synthetic root, also when a record has code "0", and a record with code
\* "0" has no children.
C26_SentinelPrecedence ==
    Built =>
       \A k \in 1..size :
          /\ regions[k].parent_code = Sentinel =>
                /\ heap[RecordNode(k)].parent = root
                /\ \E j \in 1..heap[root].child_count :
                      heap[root].children[j] = RecordNode(k)
          /\ regions[k].code = Sentinel =>
                heap[RecordNode(k)].child_count = 0

\* a record with code "0" and another record with parent_code "0" are both
\* under the root
C26_Witness ==
    /\ Built
    /\ \E a, b \in 1..size :
          /\ a # b
          /\ regions[a].code = Sentinel
          /\ regions[b].parent_code = Sentinel
          /\ regions[b].code # Sentinel
          /\ heap[RecordNode(b)].parent = root

C30_CountIsTotal ==
    (NameSearch /\ q.max_results = MaxResults) =>
       LET matching == Cardinality({n \in Reach : Matches(n, q.arg)})
       IN /\ q.count = matching
          /\ matching = 0 => q.status = "notfound"

(* ---------------------------------------------------------------------- *)
(* C28: validation of the query arguments                                  *)
(* ---------------------------------------------------------------------- *)
\* codes that are too short, too long, hold a letter, are empty, are valid
Letter == 17
TypedCodes ==
    { <<>>, Sentinel, SubSeq(Beijing, 1, CodeDigits - 1),
      Append(Beijing, 0), [Beijing EXCEPT ![CodeDigits] = Letter],
      Beijing, RootCode, Missing }

\* a name of 34 characters is 102 bytes long, one of 33 is 99 bytes long
LongNameChars == MAX_NAME_LENGTH \div 3 + 1
Space == 32
Tab == 9
TypedNames ==
    { NullString, <<>>, <<Space>>, <<Space, Tab, Space>>,
      [k \in 1..LongNameChars |-> NameJing[1]],
      [k \in 1..LongNameChars - 1 |-> NameJing[1]],
      <<Space>> \o NameJing, NameShi, NameHai }

\* findByCode called with any string
CallFindByCodeTyped ==
    /\ pc = "menu"
    /\ \E code \in TypedCodes : q' = findByCode(heap, root, code)
    /\ pc' = "shown"
    /\ UNCHANGED <<regions, size, heap, nodes, codeToNode, root, i,
                   allocated, freed, result, kept>>

\* findByName called with any root pointer and any string pointer
CallFindByNameTyped ==
    /\ pc = "menu"
    /\ \E r \in {root, NULL}, name \in TypedNames :
          q' = findByName(heap, r, name, MaxResults) @@ [root |-> r]
    /\ pc' = "shown"
    /\ UNCHANGED <<regions, size, heap, nodes, codeToNode, root, i,
                   allocated, freed, result, kept>>

NextValidate ==
    \/ LoadRegions
    \/ AllocArrays
    \/ CreateNodeStep
    \/ SortIndex
    \/ CreateRoot
    \/ LinkStep
    \/ BuildReturn
    \/ CallFindByCodeTyped
    \/ CallFindByNameTyped
    \/ MenuLoop

SpecValidate == InitRepeat /\ [][NextValidate]_vars

\* exactly 12 decimal digits
WellFormedCode(c) ==
    Len(c) = CodeDigits /\ \A k \in 1..Len(c) : c[k] \in 0..9

\* neither NULL nor empty nor blank nor 100 bytes or longer
UsableName(n) ==
    /\ n # NullString
    /\ n # <<>>
    /\ \E k \in 1..Len(n) : n[k] \notin {Space, Tab, 10, 11, 12, 13}
    /\ strlen(n) < MAX_NAME_LENGTH

\* C28: findByCode reports the format error and finds nothing unless the
\* code is exactly 12 decimal digits, and otherwise ends found or not
\* found; findByName reports the invalid-name error and visits no node when
\* the root or the pattern is NULL or the pattern is empty, blank or 100
\* bytes long or longer, and otherwise visits the tree and ends with the
\* match list or not found.
C28_ValidationGates ==
    pc = "shown" =>
       /\ q.op = "findByCode" =>
             IF WellFormedCode(q.arg)
             THEN /\ q.status \in {"found", "notfound"}
                  /\ q.found = findNodeByCode(heap, root, q.arg)
             ELSE /\ q.status = "invalid"
                  /\ q.found = NULL
                  /\ q.out = <<>>
       /\ q.op = "findByName" =>
             IF q.root # NULL /\ UsableName(q.arg)
             THEN /\ q.status \in {"found", "notfound"}
                  /\ q.examined # <<>>
                  /\ q.status = "found" <=> q.out # <<>>
             ELSE /\ q.status = "invalid"
                  /\ q.examined = <<>>
                  /\ q.out = <<>>

\* a pattern of 34 characters was rejected for its 102 bytes
C28_Witness ==
    /\ pc = "shown"
    /\ q.op = "findByName"
    /\ q.root # NULL
    /\ q.arg # NullString
    /\ Len(q.arg) < MAX_NAME_LENGTH
    /\ strlen(q.arg) >= MAX_NAME_LENGTH
    /\ q.status = "invalid"

(* ---------------------------------------------------------------------- *)
(* The flat-array name search of test.c, one step per loop iteration       *)
(* ---------------------------------------------------------------------- *)
FlatCap == 20

\* main of test.c: the records are loaded and the menu is shown, no tree
FlatLoad ==
    /\ pc = "load"
    /\ allocated' = allocated \cup {RegionsBlock}
    /\ IF size = 0
       THEN /\ freed' = Append(freed, RegionsBlock)
            /\ result' = 1
            /\ pc' = "exit"
       ELSE /\ pc' = "menu"
            /\ UNCHANGED <<freed, result>>
    /\ UNCHANGED <<regions, size, heap, nodes, codeToNode, root, i, q, kept>>

\* menu case 2 of test.c: findByName(regions, size, search_term)
FlatStartFindByName ==
    /\ pc = "menu"
    /\ \E name \in QueryNames :
          q' = [op |-> "flatFindByName", arg |-> name, i |-> 0, found |-> 0,
                walking |-> FALSE, current_parent |-> Sentinel]
    /\ pc' = "flat"
    /\ UNCHANGED <<regions, size, heap, nodes, codeToNode, root, i,
                   allocated, freed, result, kept>>

\* the inner for loop: index of the first record whose code is key, or 0
RECURSIVE FlatScan(_, _)
FlatScan(key, j) ==
    IF j >= size THEN 0
    ELSE IF strcmp(regions[j + 1].code, key) = 0 THEN j + 1
    ELSE FlatScan(key, j + 1)

\* one iteration of the for loop over the records or, inside a match, one
\* test of while (strcmp(current_parent, "0") != 0) with its inner for loop
FlatStep ==
    /\ pc = "flat"
    /\ IF q.walking
       THEN IF strcmp(q.current_parent, Sentinel) = 0
            THEN IF q.found + 1 >= FlatCap
                 THEN /\ q' = [q EXCEPT !.found = @ + 1, !.walking = FALSE]
                      /\ pc' = "shown"
                 ELSE /\ q' = [q EXCEPT !.found = @ + 1, !.walking = FALSE,
                                        !.i = @ + 1]
                      /\ pc' = "flat"
            ELSE LET j == FlatScan(q.current_parent, 0)
                 IN /\ q' = IF j # 0
                            THEN [q EXCEPT !.current_parent =
                                               regions[j].parent_code]
                            ELSE q
                    /\ pc' = "flat"
       ELSE IF q.i >= size
            THEN /\ q' = q
                 /\ pc' = "shown"
            ELSE IF strstr(regions[q.i + 1].name, q.arg) # NULL
                 THEN /\ q' = [q EXCEPT !.walking = TRUE,
                                        !.current_parent =
                                            regions[q.i + 1].parent_code]
                      /\ pc' = "flat"
                 ELSE /\ q' = [q EXCEPT !.i = @ + 1]
                      /\ pc' = "flat"
    /\ UNCHANGED <<regions, size, heap, nodes, codeToNode, root, i,
                   allocated, freed, result, kept>>

NextFlat ==
    \/ FlatLoad
    \/ FlatStartFindByName
    \/ FlatStep
    \/ MenuLoop

\* a call that has started keeps executing
SpecFlat == InitLive /\ [][NextFlat]_vars /\ WF_vars(FlatStep)

(* ---------------------------------------------------------------------- *)
(* C29: termination of the flat-array name search                          *)
(* ---------------------------------------------------------------------- *)
\* C29: every flat-array findByName that has started returns, whatever the
\* records and the pattern are.
C29_FlatSearchTerminates == (pc = "flat") ~> (pc = "shown")

(* ---------------------------------------------------------------------- *)
(* The compact variant: new_node, add_kid and build                        *)
(* ---------------------------------------------------------------------- *)
\* The compact variant's Node has the layout of TreeNode under shorter
\* names: kids is children, count is child_count, cap is child_capacity.
\* Its main, the two malloc calls of build, the qsort of map by code and
\* the final free(map); free(nodes); return root act as LoadRegions,
\* AllocArrays, SortIndex and BuildReturn do; the steps below are the ones
\* that differ.
INIT_CAP == 8
LEN_CODE == 20

new_node(r) ==
    [data |-> r, children |-> <<>>, parent |-> NULL,
     child_count |-> 0, child_capacity |-> INIT_CAP]

\* the heap after add_kid(p, k); grow_ok is whether realloc returns a block
\* when the array is full; when it does not, add_kid returns at once
add_kid(h, p, k, grow_ok) ==
    IF h[p].child_count >= h[p].child_capacity /\ ~grow_ok
    THEN h
    ELSE LET cap == IF h[p].child_count >= h[p].child_capacity
                    THEN h[p].child_capacity * 2
                    ELSE h[p].child_capacity
             h1 == [h EXCEPT ![p].child_capacity = cap,
                             ![p].children = Append(@, k),
                             ![p].child_count = @ + 1]
         IN [h1 EXCEPT ![k].parent = p]

\* nodes[i] = new_node(rs[i]); map[i] = (code, nodes[i])
NewNodeStep ==
    /\ pc = "create"
    /\ i < size
    /\ heap' = Append(heap, new_node(regions[i + 1]))
    /\ allocated' = allocated \cup
           {NodeBlock(Len(heap) + 1), ChildrenBlock(Len(heap) + 1)}
    /\ nodes' = Append(nodes, Len(heap) + 1)
    /\ codeToNode' = Append(codeToNode,
           [code |-> strncpy(regions[i + 1].code, LEN_CODE - 1),
            node |-> Len(heap) + 1])
    /\ i' = i + 1
    /\ UNCHANGED <<regions, size, root, pc, q, freed, result, kept>>

\* root = new_node(root_data)
NewRoot ==
    /\ pc = "root"
    /\ heap' = Append(heap, new_node(China))
    /\ allocated' = allocated \cup
           {NodeBlock(Len(heap) + 1), ChildrenBlock(Len(heap) + 1)}
    /\ root' = Len(heap) + 1
    /\ pc' = "link"
    /\ i' = 0
    /\ UNCHANGED <<regions, size, nodes, codeToNode, q, freed, result, kept>>

\* one iteration of the linking loop of build; realloc inside add_kid may
\* return NULL whenever it is called
LinkStepCompact ==
    /\ pc = "link"
    /\ i < size
    /\ \E grow_ok \in BOOLEAN :
          heap' =
             IF strcmp(regions[i + 1].parent_code, Sentinel) = 0
             THEN add_kid(heap, root, nodes[i + 1], grow_ok)
             ELSE LET parent == BinarySearch(codeToNode,
                                    regions[i + 1].parent_code, 0, size - 1)
                  IN IF parent # NULL
                     THEN add_kid(heap, parent, nodes[i + 1], grow_ok)
                     ELSE heap
    /\ i' = i + 1
    /\ UNCHANGED <<regions, size, nodes, codeToNode, root, pc, q, allocated,
                   freed, result, kept>>

InputsCompact == InputsLive \cup {Scenario1, Fan}

InitCompact ==
    /\ regions \in InputsCompact
    /\ size = Len(regions)
    /\ heap = <<>>
    /\ nodes = <<>>
    /\ codeToNode = <<>>
    /\ root = NULL
    /\ pc = "load"
    /\ i = 0
    /\ q = NoQuery
    /\ allocated = {}
    /\ freed = <<>>
    /\ result = NotReturned
    /\ kept = NoQuery

NextCompact ==
    \/ LoadRegions
    \/ AllocArrays
    \/ NewNodeStep
    \/ SortIndex
    \/ NewRoot
    \/ LinkStepCompact
    \/ BuildReturn

SpecCompact == InitCompact /\ [][NextCompact]_vars

(* ---------------------------------------------------------------------- *)
(* C21: the compact build returns all the records or fails                 *)
(* ---------------------------------------------------------------------- *)
\* C21: when build of the compact variant has returned a root and every
\* record's parent chain resolves, every record's node is a descendant of
\* the root, also when enlarging a child array failed inside add_kid.
C21_BuildAllOrNothing ==
    (pc = "menu" /\ root # NULL /\ WellFormed) =>
        \A k \in 1..size : RecordNode(k) \in Reach

====
